---- MODULE Spec2Model ----
(***************************************************************************)
(* The Steps component of intro.js-react (src/components/Steps/index.js):  *)
(* a React class component that keeps one intro.js instance in step with   *)
(* its props and relays the instance's events to the consumer's callbacks. *)
(*                                                                         *)
(* Every lifecycle pass, engine event and timer is one action.  What a     *)
(* pass did, in order, is kept in `log`: one entry per engine call,        *)
(* relay handler, consumer callback and write of isVisible, each with the  *)
(* value isVisible had at that moment.  `log` holds the last action only.  *)
(*                                                                         *)
(* Operations are operators from a state record to the SET of states they  *)
(* can end in (the consumer's return values are the nondeterminism).       *)
(*                                                                         *)
(* Spec is the component with a consumer that changes props between        *)
(* events; FairSpec adds the event loop's fairness; SyncSpec adds a        *)
(* consumer whose onExit changes the props before it returns; RebindSpec   *)
(* is the mounted component in a changing document, with a consumer that   *)
(* calls updateStepElement.                                                *)
(***************************************************************************)
EXTENDS Integers, Sequences, FiniteSets, TLC

VARIABLES
    props,          \* this.props
    isVisible,      \* this.isVisible
    isConfigured,   \* this.isConfigured
    introJs,        \* this.introJs: the engine instance, as far as the component reads it
    timers,         \* pending setTimeout(..., 0) closures, oldest first
    phase,          \* "constructed" | "mounted" | "unmounted"
    log,            \* what the last action did, in order
    lastCall,       \* history: the latest of start issued / exit issued / exit event received
    pre,            \* history: what the last action started from
    dom             \* the document: the selectors a live element matches

vars == <<props, isVisible, isConfigured, introJs, timers, phase, log, lastCall, pre, dom>>

---------------------------------------------------------------------------
(* Bounds *)

\* pending prevent-change timers kept at once
MaxTimers == 1
\* data props (enabled, initialStep, steps, options) one update pass changes
MaxChanged == 2

---------------------------------------------------------------------------
(* Values *)

\* the value of introJs._currentStep when no step is current
Undefined == -1
\* log entries that carry no number
None == Undefined - 1

\* what a consumer callback may return: true, false, or anything else
Ret == {"true", "false", "undefined"}

\* props.steps: array references and what each holds.  intro is either a
\* string or a React element; a string is a sequence of tokens.
StepsRefs == {"E1", "E2", "A", "B"}
OptionsRefs == {"O1", "O2"}

StepsOf(ref) ==
    CASE ref = "A" -> << [element |-> "#a0", intro |-> [node |-> FALSE, text |-> <<"hello">>], position |-> "top"],
                         [element |-> "#a1", intro |-> [node |-> TRUE, tag |-> "b", text |-> <<"bold">>]] >>
      [] ref = "B" -> << [element |-> "#b0", intro |-> [node |-> TRUE, tag |-> "i", text |-> <<"it">>], position |-> "left"],
                         [element |-> "#b1", intro |-> [node |-> FALSE, text |-> <<"bye">>]] >>
      [] OTHER -> << >>

OptionsOf(ref) ==
    CASE ref = "O1" -> [showButtons |-> TRUE]
      [] OTHER -> [showButtons |-> FALSE, steps |-> <<"stale">>]

\* the selectors the steps name
Selectors == {"#a0", "#a1", "#b0", "#b1"}

\* document.querySelector(selector): the live element, here named by its
\* selector, or null
Null == "null"

querySelector(selector) == IF selector \in dom THEN selector ELSE Null

\* the optional callback props
OptionalCallbacks ==
    {"onStart", "onBeforeExit", "onBeforeChange", "onAfterChange", "onChange",
     "onPreventChange", "onComplete"}

\* the sets of optional callbacks a consumer supplies
CallbackSets ==
    { {},
      OptionalCallbacks,
      {"onBeforeChange", "onBeforeExit"},
      {"onPreventChange", "onStart"} }

PropsSet ==
    [enabled : BOOLEAN, initialStep : {0, 1}, steps : StepsRefs,
     options : OptionsRefs, cbs : CallbackSets]

---------------------------------------------------------------------------
(* The state record the operations work on *)

Cur ==
    [props |-> props, isVisible |-> isVisible, isConfigured |-> isConfigured,
     introJs |-> introJs, timers |-> timers, log |-> << >>]

\* a log entry: what happened (k), isVisible (v) and the engine's current
\* step (c) at that moment, the number passed (n) and, for a call that
\* returns a value, the value (r)
Ev(s, k, n, r) ==
    [k |-> k, v |-> s.isVisible, c |-> s.introJs.currentStep, n |-> n, r |-> r]

Emit(s, k, n) == [s EXCEPT !.log = Append(@, Ev(s, k, n, ""))]

EmitRet(s, k, n, r) == [s EXCEPT !.log = Append(@, Ev(s, k, n, r))]

\* a consumer callback called with (n, element) that returned r
EmitCall(s, k, n, element, r) ==
    [s EXCEPT !.log = Append(@, Ev(s, k, n, r) @@ [e |-> element])]

\* sequential composition: F applied to every state of S
Then(S, F(_)) == UNION {F(s) : s \in S}

\* the same for operations that also return a value: S is a set of [s, ret]
ThenRet(S, F(_, _)) == UNION {F(x.s, x.ret) : x \in S}

Has(s, cb) == cb \in s.props.cbs

---------------------------------------------------------------------------
(* Event relay: the six handlers registered on the engine (installIntroJs). *)
(* A handler that returns a value maps a state to a set of [s, ret].        *)

\* setTimeout(() => { onPreventChange(this.introJs._currentStep) }, 0):
\* the closure keeps the callback; `at` remembers the step index at the
\* time of scheduling, which the closure itself does not keep.
SetTimeout(s) ==
    LET s1 == Emit(s, "setTimeout", None)
    IN  [s1 EXCEPT !.timers = Append(@, [at |-> s.introJs.currentStep])]

\* mutant: the exit handler forgets to clear isVisible
onExit_KeepVisible(s) ==
    LET s1 == Emit(s, "relay.onExit", None)
    IN  {Emit(s1, "props.onExit", s1.introJs.currentStep)}

onExit(s) ==
    LET s1 == Emit(s, "relay.onExit", None)
        s2 == [s1 EXCEPT !.isVisible = FALSE]
    IN  {Emit(s2, "props.onExit", s2.introJs.currentStep)}

\* a handler's return: logged, and handed to the engine
Return(s, k, ret) == [s |-> EmitRet(s, k, None, ret), ret |-> ret]

\* mutant: before-exit gated by isVisible like the change handlers
onBeforeExit_Gated(s) ==
    LET s1 == Emit(s, "relay.onBeforeExit", None)
    IN  IF s1.isVisible /\ Has(s1, "onBeforeExit")
        THEN {Return(EmitRet(s1, "props.onBeforeExit", s1.introJs.currentStep, r),
                     "relay.onBeforeExit.return", r) : r \in Ret}
        ELSE {Return(s1, "relay.onBeforeExit.return", "true")}

onBeforeExit(s) ==
    LET s1 == Emit(s, "relay.onBeforeExit", None)
    IN  IF Has(s1, "onBeforeExit")
        THEN {Return(EmitRet(s1, "props.onBeforeExit", s1.introJs.currentStep, r),
                     "relay.onBeforeExit.return", r) : r \in Ret}
        ELSE {Return(s1, "relay.onBeforeExit.return", "true")}

\* mutant: the relay hands the engine `continueStep !== false`
onBeforeChange_Coerced(s, nextElement) ==
    LET s1 == Emit(s, "relay.onBeforeChange", nextElement)
    IN  IF ~s1.isVisible
        THEN {Return(s1, "relay.onBeforeChange.return", "true")}
        ELSE IF Has(s1, "onBeforeChange")
        THEN {LET s2 == EmitCall(s1, "props.onBeforeChange", s1.introJs.currentStep, nextElement, continueStep)
              IN  Return(IF continueStep = "false" /\ Has(s2, "onPreventChange")
                         THEN SetTimeout(s2)
                         ELSE s2,
                         "relay.onBeforeChange.return",
                         IF continueStep = "false" THEN "false" ELSE "true") : continueStep \in Ret}
        ELSE {Return(s1, "relay.onBeforeChange.return", "true")}

\* mutant: `!continueStep` instead of `continueStep === false`
onBeforeChange_PreventOnFalsy(s, nextElement) ==
    LET s1 == Emit(s, "relay.onBeforeChange", nextElement)
    IN  IF ~s1.isVisible
        THEN {Return(s1, "relay.onBeforeChange.return", "true")}
        ELSE IF Has(s1, "onBeforeChange")
        THEN {LET s2 == EmitCall(s1, "props.onBeforeChange", s1.introJs.currentStep, nextElement, continueStep)
              IN  Return(IF continueStep # "true" /\ Has(s2, "onPreventChange")
                         THEN SetTimeout(s2)
                         ELSE s2,
                         "relay.onBeforeChange.return", continueStep) : continueStep \in Ret}
        ELSE {Return(s1, "relay.onBeforeChange.return", "true")}

onBeforeChange(s, nextElement) ==
    LET s1 == Emit(s, "relay.onBeforeChange", nextElement)
    IN  IF ~s1.isVisible
        THEN {Return(s1, "relay.onBeforeChange.return", "true")}
        ELSE IF Has(s1, "onBeforeChange")
        THEN {LET s2 == EmitCall(s1, "props.onBeforeChange", s1.introJs.currentStep, nextElement, continueStep)
              IN  Return(IF continueStep = "false" /\ Has(s2, "onPreventChange")
                         THEN SetTimeout(s2)
                         ELSE s2,
                         "relay.onBeforeChange.return", continueStep) : continueStep \in Ret}
        ELSE {Return(s1, "relay.onBeforeChange.return", "true")}

onAfterChange(s, element) ==
    LET s1 == Emit(s, "relay.onAfterChange", element)
    IN  IF ~s1.isVisible
        THEN {s1}
        ELSE IF Has(s1, "onAfterChange")
        THEN {Emit(s1, "props.onAfterChange", s1.introJs.currentStep)}
        ELSE {s1}

\* mutant: the change handler without the visibility gate
onChange_Ungated(s, element) ==
    LET s1 == Emit(s, "relay.onChange", element)
    IN  IF Has(s1, "onChange")
        THEN {Emit(s1, "props.onChange", s1.introJs.currentStep)}
        ELSE {s1}

onChange(s, element) ==
    LET s1 == Emit(s, "relay.onChange", element)
    IN  IF ~s1.isVisible
        THEN {s1}
        ELSE IF Has(s1, "onChange")
        THEN {Emit(s1, "props.onChange", s1.introJs.currentStep)}
        ELSE {s1}

onComplete(s) ==
    LET s1 == Emit(s, "relay.onComplete", None)
    IN  IF Has(s1, "onComplete")
        THEN {Emit(s1, "props.onComplete", None)}
        ELSE {s1}

---------------------------------------------------------------------------
(* The engine (intro.js), as the component drives it.  It calls the        *)
(* handlers above synchronously, inside the call that causes the event.    *)

\* one step transition to `target`: before-change, and unless that returned
\* exactly false, the move, change and after-change
EngineTransition(s, target) ==
    ThenRet(onBeforeChange(s, target),
            LAMBDA s1, continueStep :
                IF continueStep = "false"
                THEN {s1}
                ELSE Then(onChange([s1 EXCEPT !.introJs.currentStep = target], target),
                          LAMBDA s2 : onAfterChange(s2, target)))

\* exit: before-exit, and unless that returned exactly false, the exit
\* event; the current step is dropped after the exit handler has run
EngineExit(s) ==
    ThenRet(onBeforeExit(s),
            LAMBDA s1, continueExit :
                IF continueExit = "false"
                THEN {s1}
                ELSE {[s2 EXCEPT !.introJs.showing = FALSE,
                                 !.introJs.currentStep = Undefined] : s2 \in onExit(s1)})

\* this.introJs.setOptions(o): o's keys replace the engine's
introJs_setOptions(s, o) ==
    LET s1 == Emit(s, "introJs.setOptions", None)
        old == s1.introJs.options
    IN  [s1 EXCEPT !.introJs.options =
            [k \in DOMAIN old \cup DOMAIN o |-> IF k \in DOMAIN o THEN o[k] ELSE old[k]]]

\* the item the engine makes of a configured step when the tour starts, as
\* far as the component writes it: the element the step's selector resolves
\* to and the position; a step whose element is not in the document floats
IntroItem(step) ==
    LET element == querySelector(step.element)
    IN  IF element = Null
        THEN [element |-> "floating", position |-> "floating"]
        ELSE [element |-> element,
              position |-> IF "position" \in DOMAIN step THEN step.position ELSE "undefined"]

\* this.introJs.start(): the items are made of the configured steps and
\* the tour opens on its first step
introJs_start(s) ==
    LET s1 == Emit(s, "introJs.start", None)
        steps == s1.introJs.options.steps
        s2 == [s1 EXCEPT !.introJs.showing = TRUE,
                         !.introJs.introItems = [i \in DOMAIN steps |-> IntroItem(steps[i])]]
    IN  {Emit(s3, "introJs.start.return", None) : s3 \in EngineTransition(s2, 0)}

\* this.introJs.goToStepNumber(n): n is 1-based
introJs_goToStepNumber(s, n) ==
    LET s1 == Emit(s, "introJs.goToStepNumber", n)
    IN  {Emit(s2, "introJs.goToStepNumber.return", None) : s2 \in EngineTransition(s1, n - 1)}

\* this.introJs.exit()
introJs_exit(s) ==
    LET s1 == Emit(s, "introJs.exit", None)
    IN  {Emit(s2, "introJs.exit.return", None) : s2 \in EngineExit(s1)}

---------------------------------------------------------------------------
(* The component's own operations *)

\* renderToStaticMarkup(step.intro)
renderToStaticMarkup(intro) ==
    [node |-> FALSE, text |-> <<"<", intro.tag, ">">> \o intro.text \o <<"</", intro.tag, ">">>]

\* mutant: every step handed to the engine as it came
SanitizeStep_PassThrough(step) ==
    step

\* isValidElement(step.intro) ? {...step, intro: markup} : step
SanitizeStep(step) ==
    IF step.intro.node
    THEN [step EXCEPT !.intro = renderToStaticMarkup(step.intro)]
    ELSE step

\* {...options, steps: sanitizedSteps}
ConfigFor(p) ==
    LET options == OptionsOf(p.options)
        steps == StepsOf(p.steps)
        sanitizedSteps == [i \in DOMAIN steps |-> SanitizeStep(steps[i])]
    IN  [k \in DOMAIN options \cup {"steps"} |->
            IF k = "steps" THEN sanitizedSteps ELSE options[k]]

configureIntroJs(s) ==
    LET s1 == introJs_setOptions(s, ConfigFor(s.props))
    IN  {[s1 EXCEPT !.isConfigured = TRUE]}

\* mutant: the guard without the steps.length check
ShouldStart_AnySteps(s) ==
    s.props.enabled /\ ~s.isVisible

\* the guard of the Hidden -> Visible branch
ShouldStart(s) ==
    s.props.enabled /\ Len(StepsOf(s.props.steps)) > 0 /\ ~s.isVisible

\* the guard of the Visible -> Hidden branch
ShouldExit(s) ==
    ~s.props.enabled /\ s.isVisible

\* mutant: goToStepNumber(initialStep), the 0-based index
StartTour_ZeroBased(s) ==
    Then(Then(introJs_start(s),
              LAMBDA s1 : introJs_goToStepNumber(
                              Emit([s1 EXCEPT !.isVisible = TRUE], "isVisible", None),
                              s1.props.initialStep)),
         LAMBDA s2 : IF Has(s2, "onStart")
                     THEN {Emit(s2, "props.onStart", s2.introJs.currentStep)}
                     ELSE {s2})

\* mutant: isVisible set before start() is called
StartTour_VisibleFirst(s) ==
    Then(Then(introJs_start(Emit([s EXCEPT !.isVisible = TRUE], "isVisible", None)),
              LAMBDA s1 : introJs_goToStepNumber(s1, s1.props.initialStep + 1)),
         LAMBDA s2 : IF Has(s2, "onStart")
                     THEN {Emit(s2, "props.onStart", s2.introJs.currentStep)}
                     ELSE {s2})

\* the Hidden -> Visible branch
StartTour(s) ==
    Then(Then(introJs_start(s),
              LAMBDA s1 : introJs_goToStepNumber(
                              Emit([s1 EXCEPT !.isVisible = TRUE], "isVisible", None),
                              s1.props.initialStep + 1)),
         LAMBDA s2 : IF Has(s2, "onStart")
                     THEN {Emit(s2, "props.onStart", s2.introJs.currentStep)}
                     ELSE {s2})

\* mutant: isVisible left to the exit handler
ExitTour_RelyOnRelay(s) ==
    introJs_exit(s)

\* mutant: exit() called before isVisible is cleared
ExitTour_ExitFirst(s) ==
    {Emit([s1 EXCEPT !.isVisible = FALSE], "isVisible", None) : s1 \in introJs_exit(s)}

\* the Visible -> Hidden branch
ExitTour(s) ==
    introJs_exit(Emit([s EXCEPT !.isVisible = FALSE], "isVisible", None))

renderSteps(s) ==
    LET s1 == Emit(s, "renderSteps", None)
    IN  IF ShouldStart(s1) THEN StartTour(s1)
        ELSE IF ShouldExit(s1) THEN ExitTour(s1)
        ELSE {s1}

componentDidMount(s) ==
    LET s1 == Emit(s, "componentDidMount", None)
    IN  IF s1.props.enabled
        THEN Then(configureIntroJs(s1), LAMBDA s2 : renderSteps(s2))
        ELSE {s1}

\* mutant: configure on every update pass
NeedsConfigure_Always(s, prevProps) ==
    TRUE

\* the first condition of componentDidUpdate
NeedsConfigure(s, prevProps) ==
    \/ ~s.isConfigured
    \/ prevProps.steps # s.props.steps
    \/ prevProps.options # s.props.options

\* mutant: no visibility check after a reconfiguration
componentDidUpdate_ConfigureOnly(s, prevProps) ==
    LET s1 == Emit(s, "componentDidUpdate", None)
        configured ==
            IF NeedsConfigure(s1, prevProps)
            THEN configureIntroJs(s1)
            ELSE {s1}
    IN  Then(configured,
             LAMBDA s3 : IF prevProps.enabled # s3.props.enabled
                         THEN renderSteps(s3)
                         ELSE {s3})

\* mutant: the visibility check runs on every update pass
componentDidUpdate_AlwaysRender(s, prevProps) ==
    LET s1 == Emit(s, "componentDidUpdate", None)
        configured ==
            IF NeedsConfigure(s1, prevProps)
            THEN Then(configureIntroJs(s1), LAMBDA s2 : renderSteps(s2))
            ELSE {s1}
    IN  Then(configured, LAMBDA s3 : renderSteps(s3))

componentDidUpdate(s, prevProps) ==
    LET s1 == Emit(s, "componentDidUpdate", None)
        configured ==
            IF NeedsConfigure(s1, prevProps)
            THEN Then(configureIntroJs(s1), LAMBDA s2 : renderSteps(s2))
            ELSE {s1}
    IN  Then(configured,
             LAMBDA s3 : IF prevProps.enabled # s3.props.enabled
                         THEN renderSteps(s3)
                         ELSE {s3})

componentWillUnmount(s) ==
    introJs_exit(Emit(s, "componentWillUnmount", None))

\* a call that ends in a TypeError: nothing is written
Throw(s) == Emit(s, "TypeError", None)

\* mutant: the position is not written
updateStepElement_ElementOnly(s, stepIndex) ==
    LET s1 == [s EXCEPT !.log = Append(@, Ev(s, "updateStepElement", stepIndex, "")
                                          @@ [was |-> s.introJs])]
        options == s1.introJs.options
        items == s1.introJs.introItems
        i == stepIndex + 1
    IN  IF "steps" \notin DOMAIN options \/ i \notin DOMAIN options.steps
        THEN {Throw(s1)}
        ELSE LET step == options.steps[i]
                 element == querySelector(step.element)
             IN  IF element = Null
                 THEN {s1}
                 ELSE IF i \notin DOMAIN items
                 THEN {Throw(s1)}
                 ELSE {[s1 EXCEPT !.introJs.introItems[i].element = element]}

\* updateStepElement(stepIndex), the public method; stepIndex is 0-based.
\* Reading a step or an item that does not exist throws.
updateStepElement(s, stepIndex) ==
    LET s1 == [s EXCEPT !.log = Append(@, Ev(s, "updateStepElement", stepIndex, "")
                                          @@ [was |-> s.introJs])]
        options == s1.introJs.options
        items == s1.introJs.introItems
        i == stepIndex + 1
    IN  IF "steps" \notin DOMAIN options \/ i \notin DOMAIN options.steps
        THEN {Throw(s1)}
        ELSE LET step == options.steps[i]
                 element == querySelector(step.element)
             IN  IF element = Null
                 THEN {s1}
                 ELSE IF i \notin DOMAIN items
                 THEN {Throw(s1)}
                 ELSE {[s1 EXCEPT !.introJs.introItems[i].element = element,
                                  !.introJs.introItems[i].position =
                                      IF "position" \in DOMAIN step THEN step.position ELSE "auto"]}

---------------------------------------------------------------------------
(* Actions *)

\* number of entries of kind k in a log
RECURSIVE Count(_, _)
Count(l, k) ==
    IF l = << >> THEN 0
    ELSE (IF Head(l).k = k THEN 1 ELSE 0) + Count(Tail(l), k)

\* the latest entry of log l that is a start issued ("start"), an exit issued
\* or an exit event received ("exit"); `was` when l has none.  An
\* "introJs.exit" entry counts only if exits(l).
RECURSIVE LastOf(_, _, _)
LastOf(l, was, countExit) ==
    IF l = << >> THEN was
    ELSE LET e == l[Len(l)]
         IN  IF e.k = "introJs.start" THEN "start"
             ELSE IF e.k = "relay.onExit" \/ (e.k = "introJs.exit" /\ countExit) THEN "exit"
             ELSE LastOf(SubSeq(l, 1, Len(l) - 1), was, countExit)

IsTeardown(l) == l # << >> /\ l[1].k = "componentWillUnmount"

\* what an action that ends with props p started from
Before(p) ==
    [enabled |-> props.enabled, noSteps |-> Len(StepsOf(props.steps)) = 0,
     sameRefs |-> props.steps = p.steps /\ props.options = p.options,
     isConfigured |-> isConfigured, currentStep |-> introJs.currentStep,
     showing |-> introJs.showing, timers |-> timers]

Commit(s) ==
    /\ Len(s.timers) <= MaxTimers
    /\ pre' = Before(s.props)
    /\ lastCall' = [any |-> LastOf(s.log, lastCall.any, TRUE),
                    own |-> LastOf(s.log, lastCall.own, ~IsTeardown(s.log))]
    /\ props' = s.props
    /\ isVisible' = s.isVisible
    /\ isConfigured' = s.isConfigured
    /\ introJs' = s.introJs
    /\ timers' = s.timers
    /\ log' = s.log
    /\ dom' = dom

Init ==
    /\ props \in PropsSet
    /\ isVisible = FALSE
    /\ isConfigured = FALSE
    /\ introJs = [showing |-> FALSE, currentStep |-> Undefined, options |-> << >>,
                  introItems |-> << >>]
    /\ timers = << >>
    /\ phase = "constructed"
    /\ log = << >>
    /\ lastCall = [any |-> "none", own |-> "none"]
    /\ pre = Before(props)
    /\ dom = {}

Mount ==
    /\ phase = "constructed"
    /\ \E s \in componentDidMount(Cur) : Commit(s)
    /\ phase' = "mounted"

\* the props a re-render of the parent may hand over in one pass: new data
\* props with the callbacks kept, or other callbacks with the data kept
DataProps == {"enabled", "initialStep", "steps", "options"}

NextPropsSet ==
    {p \in PropsSet :
        \/ /\ p.cbs = props.cbs
           /\ Cardinality({f \in DataProps : p[f] # props[f]}) <= MaxChanged
        \/ [p EXCEPT !.cbs = props.cbs] = props}

Update ==
    /\ phase = "mounted"
    /\ \E nextProps \in NextPropsSet :
          \E s \in componentDidUpdate([Cur EXCEPT !.props = nextProps], props) : Commit(s)
    /\ UNCHANGED phase

Unmount ==
    /\ phase = "mounted"
    /\ \E s \in componentWillUnmount(Cur) : Commit(s)
    /\ phase' = "unmounted"

\* the user moves the open tour to another step
UserChangeStep ==
    /\ introJs.showing
    /\ \E target \in {0, 1} \ {introJs.currentStep} :
          \E s \in EngineTransition(Emit(Cur, "user.changeStep", target), target) : Commit(s)
    /\ UNCHANGED phase

\* the user closes the open tour (skip, overlay click, Escape)
UserExit ==
    /\ introJs.showing
    /\ \E s \in EngineExit(Emit(Cur, "user.exit", None)) : Commit(s)
    /\ UNCHANGED phase

\* the user ends the tour on its last step: complete, then exit
UserComplete ==
    /\ introJs.showing
    /\ introJs.currentStep = 1
    /\ \E s \in Then(onComplete(Emit(Cur, "user.complete", None)), LAMBDA s1 : EngineExit(s1)) :
          Commit(s)
    /\ UNCHANGED phase

\* the oldest pending timer runs: onPreventChange(this.introJs._currentStep)
TimerFire ==
    /\ timers # << >>
    /\ Commit(Emit([Cur EXCEPT !.timers = Tail(timers)], "props.onPreventChange", introJs.currentStep))
    /\ UNCHANGED phase

Next ==
    \/ Mount
    \/ Update
    \/ Unmount
    \/ UserChangeStep
    \/ UserExit
    \/ UserComplete
    \/ TimerFire

Spec == Init /\ [][Next]_vars

\* the event loop runs every timer it holds
FairSpec == Spec /\ WF_vars(TimerFire)

\* the exit handler with a consumer whose onExit hands the component other
\* props before it returns (a parent's setState): outside React's batching
\* the re-render is synchronous and componentDidUpdate runs inside the
\* callback, that is, inside the handler
onExit_SetsProps(s, nextProps) ==
    LET s1 == Emit(s, "relay.onExit", None)
        s2 == [s1 EXCEPT !.isVisible = FALSE]
        s3 == Emit(s2, "props.onExit", s2.introJs.currentStep)
    IN  {Emit(s4, "relay.onExit.return", None) :
            s4 \in componentDidUpdate([s3 EXCEPT !.props = nextProps], s3.props)}

\* the engine's exit with such a consumer
EngineExit_SetsProps(s, nextProps) ==
    ThenRet(onBeforeExit(s),
            LAMBDA s1, continueExit :
                IF continueExit = "false"
                THEN {s1}
                ELSE {[s2 EXCEPT !.introJs.showing = FALSE,
                                 !.introJs.currentStep = Undefined] :
                         s2 \in onExit_SetsProps(s1, nextProps)})

\* the user closes the open tour and the consumer's onExit changes the
\* props synchronously.  (When React batches the change, the pass comes
\* after the handler has returned: UserExit, then Update.)
UserExitSetsProps ==
    /\ phase = "mounted"
    /\ introJs.showing
    /\ \E nextProps \in NextPropsSet :
          \E s \in EngineExit_SetsProps(Emit(Cur, "user.exit", None), nextProps) : Commit(s)
    /\ UNCHANGED phase

SyncNext ==
    \/ Next
    \/ UserExitSetsProps

SyncSpec == Init /\ [][SyncNext]_vars

\* an element a step names appears in the document, or leaves it
DomChange ==
    /\ \E selector \in Selectors :
          dom' = IF selector \in dom THEN dom \ {selector} ELSE dom \cup {selector}
    /\ log' = Emit(Cur, "document.change", None).log
    /\ pre' = Before(props)
    /\ UNCHANGED <<props, isVisible, isConfigured, introJs, timers, phase, lastCall>>

\* the consumer calls updateStepElement through a ref to the component
UpdateStepElement ==
    /\ phase = "mounted"
    /\ \E stepIndex \in {0, 1} :
          \E s \in updateStepElement(Cur, stepIndex) : Commit(s)
    /\ UNCHANGED phase

\* the component in a document whose elements come and go, with a consumer
\* that re-binds steps
RebindNext ==
    \/ Mount
    \/ DomChange
    \/ UpdateStepElement

RebindSpec == Init /\ [][RebindNext]_vars

---------------------------------------------------------------------------
(* Reading the log *)

IsPass(l) == l # << >> /\ l[1].k \in {"componentDidMount", "componentDidUpdate"}

\* the first index after i whose entry is of kind k (0 when there is none)
FirstAfter(l, i, k) ==
    LET later == {j \in DOMAIN l : j > i /\ l[j].k = k}
    IN  IF later = {} THEN 0 ELSE CHOOSE j \in later : \A m \in later : j <= m

\* the engine call (start, goToStepNumber or exit) entry j lies inside: the
\* latest call entry before j that has not returned yet ("" when none)
CallKinds == {"introJs.start", "introJs.goToStepNumber", "introJs.exit"}

ReturnKinds == {"introJs.start.return", "introJs.goToStepNumber.return", "introJs.exit.return"}

Inside(l, j) ==
    LET marks == {i \in DOMAIN l : i < j /\ l[i].k \in CallKinds \cup ReturnKinds}
    IN  IF marks = {} THEN ""
        ELSE LET i == CHOOSE m \in marks : \A o \in marks : o <= m
             IN  IF l[i].k \in CallKinds THEN l[i].k ELSE ""

RelayKinds ==
    {"relay.onExit", "relay.onBeforeExit", "relay.onBeforeChange",
     "relay.onAfterChange", "relay.onChange", "relay.onComplete"}

ConsumerKinds ==
    {"props.onExit", "props.onBeforeExit", "props.onBeforeChange",
     "props.onAfterChange", "props.onChange", "props.onPreventChange",
     "props.onComplete", "props.onStart"}

NoSteps(p) == Len(StepsOf(p.steps)) = 0

---------------------------------------------------------------------------
(* C1 *)

\* C1: the engine's start() is never called while props.steps is empty,
\* whatever `enabled` is; a mount or update pass that begins Hidden with an
\* empty steps array ends Hidden.
C1_NoStartWithoutSteps ==
    /\ \A i \in DOMAIN log :
          log[i].k = "introJs.start" => IsPass(log) /\ ~NoSteps(props)
    /\ (IsPass(log) /\ NoSteps(props) /\ ~log[1].v) => ~isVisible

\* an update pass with enabled = true and no steps ran the visibility check
C1_Witness ==
    /\ IsPass(log) /\ log[1].k = "componentDidUpdate"
    /\ props.enabled /\ NoSteps(props)
    /\ Count(log, "renderSteps") > 0

---------------------------------------------------------------------------
(* C2 *)

\* C2: a before-change, after-change or change event that arrives while
\* isVisible is false reaches no consumer callback and schedules nothing,
\* and the before-change relay returns true; an exit event always reaches
\* the consumer's onExit.
C2_HiddenEventsAbsorbed ==
    \A i \in DOMAIN log :
       /\ (log[i].k \in {"relay.onAfterChange", "relay.onChange"} /\ ~log[i].v)
             => (i = Len(log) \/ log[i + 1].k \notin ConsumerKinds \cup {"setTimeout"})
       /\ (log[i].k = "relay.onBeforeChange" /\ ~log[i].v)
             => /\ i < Len(log)
                /\ log[i + 1].k = "relay.onBeforeChange.return"
                /\ log[i + 1].r = "true"
       /\ log[i].k = "relay.onExit"
             => i < Len(log) /\ log[i + 1].k = "props.onExit"

\* the user changed step on an open tour the component believes hidden,
\* with every callback supplied, and the events of a start() were absorbed
C2_Witness ==
    /\ log # << >> /\ log[1].k = "user.changeStep"
    /\ ~isVisible
    /\ props.cbs = OptionalCallbacks
    /\ Count(log, "relay.onChange") = 1

---------------------------------------------------------------------------
(* C3 *)

\* C3 (as claimed): setOptions runs exactly once for each (steps, options)
\* pair presented, never less: when an update pass presents another pair,
\* the pair it replaces has been configured (setOptions has run before the
\* pass, which is what isConfigured records).
C3_ExactlyOncePerPair ==
    (log # << >> /\ log[1].k = "componentDidUpdate" /\ ~pre.sameRefs)
       => pre.isConfigured

\* C3 (amended): a mount pass runs setOptions once if enabled and not at all
\* otherwise; an update pass runs it once if the component is not configured
\* yet or the steps or options reference differs from the previous props,
\* and not at all otherwise; nothing else runs it.
C3_ConfigureWhenTriggered ==
    Count(log, "introJs.setOptions") =
       IF log # << >> /\ log[1].k = "componentDidMount"
       THEN (IF props.enabled THEN 1 ELSE 0)
       ELSE IF log # << >> /\ log[1].k = "componentDidUpdate"
       THEN (IF ~pre.isConfigured \/ ~pre.sameRefs THEN 1 ELSE 0)
       ELSE 0

\* a configured component was handed another pair and configured again
C3_Witness ==
    /\ IsPass(log) /\ log[1].k = "componentDidUpdate"
    /\ pre.isConfigured /\ ~pre.sameRefs
    /\ Count(log, "introJs.setOptions") = 1

---------------------------------------------------------------------------
(* C4 *)

\* what follows every start() in the log, and that nothing of it occurs
\* elsewhere
C4_Sequence ==
    /\ \A i \in DOMAIN log :
          (log[i].k = "renderSteps" /\ ~log[i].v /\ props.enabled /\ ~NoSteps(props))
             => i < Len(log) /\ log[i + 1].k = "introJs.start"
    /\ \A i \in DOMAIN log :
          log[i].k = "introJs.start" =>
             LET j == FirstAfter(log, i, "introJs.start.return")
                 m == FirstAfter(log, j + 2, "introJs.goToStepNumber.return")
             IN  /\ i > 1 /\ log[i - 1].k = "renderSteps"
                 /\ ~log[i].v
                 /\ j > 0 /\ j + 2 <= Len(log)
                 /\ log[j + 1].k = "isVisible" /\ log[j + 1].v
                 /\ log[j + 2].k = "introJs.goToStepNumber"
                 /\ log[j + 2].n = props.initialStep + 1
                 /\ m > 0
                 /\ IF "onStart" \in props.cbs
                    THEN /\ m < Len(log)
                         /\ log[m + 1].k = "props.onStart"
                         /\ log[m + 1].n = introJs.currentStep
                    ELSE m = Len(log) \/ log[m + 1].k # "props.onStart"
    /\ Count(log, "introJs.goToStepNumber") = Count(log, "introJs.start")
    /\ Count(log, "props.onStart") =
          IF "onStart" \in props.cbs THEN Count(log, "introJs.start") ELSE 0
    /\ \A i \in DOMAIN log :
          (log[i].k = "isVisible" /\ log[i].v) => i > 1 /\ log[i - 1].k = "introJs.start.return"

\* C4: every Hidden -> Visible transition is start(), isVisible := true,
\* goToStepNumber(initialStep + 1) and then, if supplied, onStart with the
\* current step read after the jump, each once and in this order.  Mounted
\* with enabled = false and updated to enabled = true with steps [S0, S1]
\* and initialStep = 1: one setOptions, one start, goToStepNumber(2), one
\* onStart.
C4_StartSequence ==
    /\ C4_Sequence
    /\ ( /\ log # << >> /\ log[1].k = "componentDidUpdate"
         /\ ~pre.isConfigured /\ ~pre.enabled
         /\ props.enabled /\ props.steps = "A" /\ props.initialStep = 1 )
       => /\ Count(log, "introJs.setOptions") = 1
          /\ Count(log, "introJs.start") = 1
          /\ \E i \in DOMAIN log :
                log[i].k = "introJs.goToStepNumber" /\ log[i].n = 2
          /\ ("onStart" \in props.cbs => Count(log, "props.onStart") = 1)

\* the scenario's update pass: configured, started, jumped to the second
\* step, onStart called with index 1
C4_Witness ==
    /\ IsPass(log) /\ log[1].k = "componentDidUpdate"
    /\ ~pre.isConfigured /\ ~pre.enabled
    /\ props.steps = "A" /\ props.initialStep = 1
    /\ Count(log, "introJs.setOptions") = 1
    /\ Count(log, "introJs.start") = 1
    /\ \E i \in DOMAIN log : log[i].k = "props.onStart" /\ log[i].n = 1

---------------------------------------------------------------------------
(* C5 *)

\* C5 (as claimed): the exit() a pass issues is issued with isVisible
\* already false and is followed by the consumer's onExit.
C5_ExitAlwaysRelayed ==
    IsPass(log) =>
       \A i \in DOMAIN log :
          log[i].k = "introJs.exit"
             => /\ ~log[i].v
                /\ \E j \in DOMAIN log : j > i /\ log[j].k = "props.onExit"

\* C5 (amended): the exit() a pass issues is issued right after isVisible
\* was set to false; unless the before-exit relay returns exactly false the
\* exit relay follows and calls the consumer's onExit with the current step
\* the engine had before the pass, and if it returns false onExit is not
\* called; whenever the consumer's onExit runs, isVisible is false.
C5_ExitRelayedUnlessVetoed ==
    \A i \in DOMAIN log :
       /\ (log[i].k = "introJs.exit" /\ IsPass(log))
             => LET r == FirstAfter(log, i, "relay.onBeforeExit.return")
                IN  /\ ~log[i].v
                    /\ i > 1 /\ log[i - 1].k = "isVisible" /\ ~log[i - 1].v
                    /\ r > 0
                    /\ IF log[r].r = "false"
                       THEN Count(log, "props.onExit") = 0
                       ELSE /\ r + 2 <= Len(log)
                            /\ log[r + 1].k = "relay.onExit"
                            /\ log[r + 2].k = "props.onExit"
                            /\ log[r + 2].n = pre.currentStep
       /\ log[i].k = "props.onExit" => ~log[i].v

\* an update pass closed a tour that stood on its second step, with a
\* before-exit callback that allowed it
C5_Witness ==
    /\ IsPass(log)
    /\ "onBeforeExit" \in props.cbs
    /\ \E i \in DOMAIN log : log[i].k = "props.onExit" /\ log[i].n = 1

---------------------------------------------------------------------------
(* C6 *)

\* C6 (as claimed): isVisible is true exactly when the latest of the starts
\* and exits issued (teardown's included) and the exit events received was
\* a start.
C6_VisibleIffLastWasStart ==
    isVisible <=> lastCall.any = "start"

\* C6 (amended): the same, with the exit teardown issues left out: it
\* changes isVisible only through the exit event it causes.
C6_VisibleIffLastOwnWasStart ==
    isVisible <=> lastCall.own = "start"

\* teardown's exit was refused while the tour was Visible
C6_Witness ==
    /\ phase = "unmounted"
    /\ isVisible
    /\ IsTeardown(log)

---------------------------------------------------------------------------
(* C7 *)

\* C7 (as claimed): a relay handler that runs inside start() observes
\* isVisible = true and one that runs inside exit() observes false.
C7_RelaysSeeLatestCall ==
    \A j \in DOMAIN log :
       log[j].k \in RelayKinds =>
          /\ Inside(log, j) = "introJs.start" => log[j].v
          /\ Inside(log, j) = "introJs.exit" => ~log[j].v

\* C7 (amended): a relay handler that runs inside the exit() issued by
\* renderSteps observes isVisible = false and one that runs inside
\* goToStepNumber() observes true; isVisible is set to true only after
\* start() has returned, so a handler that runs inside start() observes
\* false.
C7_RelaysSeeRenderStepsOrder ==
    \A j \in DOMAIN log :
       log[j].k \in RelayKinds =>
          /\ Inside(log, j) = "introJs.start" => ~log[j].v
          /\ Inside(log, j) = "introJs.goToStepNumber" => log[j].v
          /\ (Inside(log, j) = "introJs.exit" /\ IsPass(log)) => ~log[j].v

\* a pass started the tour and handlers ran inside start() and inside
\* goToStepNumber()
C7_Witness ==
    /\ IsPass(log)
    /\ \E j \in DOMAIN log :
          log[j].k = "relay.onBeforeChange" /\ Inside(log, j) = "introJs.start"
    /\ \E j \in DOMAIN log :
          log[j].k = "relay.onChange" /\ Inside(log, j) = "introJs.goToStepNumber"

---------------------------------------------------------------------------
(* C8 *)

\* C8: onPreventChange runs only as a timer's turn, never inside a relay
\* call; the before-change relay schedules exactly one timer when the
\* consumer's onBeforeChange returned exactly false and onPreventChange is
\* supplied, and schedules nothing otherwise.
C8_PreventChangeDeferred ==
    /\ \A i \in DOMAIN log :
          log[i].k = "props.onPreventChange"
             => Len(log) = 1 /\ pre.timers # << >> /\ timers = Tail(pre.timers)
    /\ \A i \in DOMAIN log :
          log[i].k = "relay.onBeforeChange.return"
             => ( (i > 1 /\ log[i - 1].k = "setTimeout")
                  <=> (log[i].r = "false" /\ "onPreventChange" \in props.cbs) )
    /\ \A i \in DOMAIN log :
          log[i].k = "setTimeout"
             => /\ i > 1 /\ log[i - 1].k = "props.onBeforeChange" /\ log[i - 1].r = "false"
                /\ i < Len(log) /\ log[i + 1].k = "relay.onBeforeChange.return"
    /\ (log = << >> \/ log[1].k # "props.onPreventChange")
          => Len(timers) = Len(pre.timers) + Count(log, "setTimeout")

\* a scheduled prevent-change callback ran on its own turn
C8_Witness ==
    /\ log # << >> /\ log[1].k = "props.onPreventChange"
    /\ pre.timers # << >>
    /\ timers = << >>

---------------------------------------------------------------------------
(* C9 *)

\* C9: the index the deferred onPreventChange receives is the engine's
\* current step at the moment of the veto.
C9_PreventChangeGetsVetoIndex ==
    (log # << >> /\ log[1].k = "props.onPreventChange")
       => log[1].n = Head(pre.timers).at

---------------------------------------------------------------------------
(* C10 *)

\* C10: the before-exit relay returns what the consumer's onBeforeExit
\* returned, or true when none is supplied, whatever isVisible is; when it
\* returns false the engine stays as it was and onExit is not called.
C10_BeforeExitPropagated ==
    /\ \A i \in DOMAIN log :
          log[i].k = "relay.onBeforeExit.return"
             => /\ i > 1
                /\ IF "onBeforeExit" \in props.cbs
                   THEN log[i - 1].k = "props.onBeforeExit" /\ log[i - 1].r = log[i].r
                   ELSE log[i - 1].k = "relay.onBeforeExit" /\ log[i].r = "true"
    /\ (\E i \in DOMAIN log : log[i].k = "relay.onBeforeExit.return" /\ log[i].r = "false")
          => /\ introJs.showing = pre.showing
             /\ Count(log, "relay.onExit") = 0
             /\ Count(log, "props.onExit") = 0

\* an exit was refused while isVisible was false and the tour stayed open
C10_Witness ==
    /\ introJs.showing
    /\ \E i \in DOMAIN log :
          log[i].k = "relay.onBeforeExit.return" /\ log[i].r = "false" /\ ~log[i].v

---------------------------------------------------------------------------
(* C11 *)

\* what the before-change relay does while isVisible is true, as a
\* property of the last action's log
C11_Relay ==
    \A i \in DOMAIN log :
       (log[i].k = "relay.onBeforeChange" /\ log[i].v) =>
          LET r == FirstAfter(log, i, "relay.onBeforeChange.return")
          IN  /\ r > i
              /\ IF "onBeforeChange" \in props.cbs
                 THEN /\ log[i + 1].k = "props.onBeforeChange"
                      /\ log[i + 1].n = log[i].c
                      /\ log[i + 1].e = log[i].n
                      /\ log[r].r = log[i + 1].r
                      /\ r <= i + 3
                 ELSE r = i + 1 /\ log[r].r = "true"
              /\ log[r].r = "false" =>
                    /\ \A j \in i..r : log[j].c = log[i].c
                    /\ IF r = Len(log)
                       THEN introJs.currentStep = log[i].c
                       ELSE /\ log[r + 1].c = log[i].c
                            /\ log[r + 1].k \notin
                                  {"relay.onChange", "relay.onAfterChange",
                                   "props.onChange", "props.onAfterChange"}
                    /\ "onPreventChange" \in props.cbs
                          => /\ log[r - 1].k = "setTimeout"
                             /\ Count(log, "props.onPreventChange") = 0
                             /\ timers # << >>

\* C11: while isVisible is true the before-change relay calls the
\* consumer's onBeforeChange, if supplied, with the engine's current step
\* and the next element, and returns its value unchanged (true when none is
\* supplied); when the value is false the engine's current step stays,
\* neither the change nor the after-change handler runs for that
\* transition, and onPreventChange, if supplied, is not called inside the
\* relay but left to a timer: a pending timer can always run, stays
\* pending until it runs, and its run is the call of onPreventChange.
C11_BeforeChangeGates ==
    /\ C11_Relay
    /\ timers # << >> => ENABLED TimerFire
    /\ IF log # << >> /\ log[1].k = "props.onPreventChange"
       THEN pre.timers # << >> /\ timers = Tail(pre.timers)
       ELSE /\ Len(timers) >= Len(pre.timers)
            /\ SubSeq(timers, 1, Len(pre.timers)) = pre.timers

\* with the event loop running every timer (FairSpec), every scheduled
\* prevent-change callback is called
C11_PreventChangeRuns ==
    (\E i \in DOMAIN log : log[i].k = "setTimeout")
       ~> (log # << >> /\ log[1].k = "props.onPreventChange")

\* the user's step change on a Visible tour was refused and a
\* prevent-change timer is pending
C11_Witness ==
    /\ log # << >> /\ log[1].k = "user.changeStep"
    /\ isVisible
    /\ \E i \in DOMAIN log :
          log[i].k = "relay.onBeforeChange.return" /\ log[i].r = "false"
    /\ timers # << >>
    /\ introJs.currentStep = pre.currentStep

---------------------------------------------------------------------------
(* C12 *)

\* the static markup of a node: its text between its opening and closing tag
MarkupOf(intro) ==
    <<"<", intro.tag, ">">> \o intro.text \o <<"</", intro.tag, ">">>

\* record o is what configuring with props p must push
IsConfigOf(o, p) ==
    LET options == OptionsOf(p.options)
        steps == StepsOf(p.steps)
    IN  /\ DOMAIN o = DOMAIN options \cup {"steps"}
        /\ \A k \in DOMAIN options \ {"steps"} : o[k] = options[k]
        /\ DOMAIN o.steps = DOMAIN steps
        /\ \A i \in DOMAIN steps :
              IF steps[i].intro.node
              THEN /\ DOMAIN o.steps[i] = DOMAIN steps[i]
                   /\ \A f \in DOMAIN steps[i] \ {"intro"} : o.steps[i][f] = steps[i][f]
                   /\ ~o.steps[i].intro.node
                   /\ o.steps[i].intro.text = MarkupOf(steps[i].intro)
              ELSE o.steps[i] = steps[i]

\* C12: configuring pushes to the engine the record that equals `options`
\* on every key but `steps`, whose value has the length and order of
\* props.steps, every step with a node as intro replaced by a copy whose
\* intro is the node's static markup and every other step as it came; a
\* `steps` key of `options` does not survive; isConfigured becomes true,
\* isVisible and the props stay.
C12_ConfigurePushesSanitized ==
    /\ \A s \in configureIntroJs(Cur) :
          /\ IsConfigOf(s.introJs.options, props)
          /\ s.isConfigured
          /\ s.isVisible = isVisible
          /\ s.props = props
          /\ s.introJs.showing = introJs.showing
          /\ s.introJs.currentStep = introJs.currentStep
    /\ (IsPass(log) /\ Count(log, "introJs.setOptions") > 0)
          => /\ IsConfigOf(introJs.options, props)
             /\ isConfigured
             /\ \A i \in DOMAIN log :
                   log[i].k = "introJs.setOptions"
                      => i < Len(log) /\ log[i + 1].v = log[i].v

\* a pass configured the engine with steps that hold a node and options
\* that hold a `steps` key of their own
C12_Witness ==
    /\ IsPass(log) /\ Count(log, "introJs.setOptions") = 1
    /\ props.steps = "A" /\ props.options = "O2"
    /\ Len(introJs.options.steps) = 2
    /\ introJs.options.steps[1] = StepsOf("A")[1]
    /\ introJs.options.steps[2].intro.text = <<"<", "b", ">", "bold", "</", "b", ">">>
    /\ ~introJs.options.showButtons

---------------------------------------------------------------------------
(* C13 *)

\* C13: updateStepElement(stepIndex), called for a configured step that
\* has an engine item: if a live element matches the step's selector, the
\* item at stepIndex gets that element and the step's configured position,
\* or 'auto' when it has none, and no other item changes; if none matches,
\* nothing changes and nothing is reported.  The engine's configuration,
\* its tour, isVisible, isConfigured and the timers stay as they were in
\* both cases.  (A call for a step or an item that does not exist throws
\* and writes nothing.)
C13_RebindFrame ==
    (log # << >> /\ log[1].k = "updateStepElement") =>
       LET was == log[1].was
           i == log[1].n + 1
           hasStep == "steps" \in DOMAIN was.options /\ i \in DOMAIN was.options.steps
           matches == hasStep /\ was.options.steps[i].element \in dom
           items == introJs.introItems
       IN  /\ introJs.options = was.options
           /\ introJs.showing = was.showing
           /\ introJs.currentStep = was.currentStep
           /\ isVisible = log[1].v
           /\ isConfigured = pre.isConfigured
           /\ timers = pre.timers
           /\ DOMAIN items = DOMAIN was.introItems
           /\ \A j \in DOMAIN items : j # i => items[j] = was.introItems[j]
           /\ Count(log, "TypeError") = 0 <=>
                 (hasStep /\ (matches => i \in DOMAIN was.introItems))
           /\ (matches /\ i \in DOMAIN was.introItems)
                 => /\ Len(log) = 1
                    /\ items[i].element = was.options.steps[i].element
                    /\ items[i].position =
                          IF "position" \in DOMAIN was.options.steps[i]
                          THEN was.options.steps[i].position
                          ELSE "auto"
           /\ ~matches => items = was.introItems
           /\ (hasStep /\ ~matches) => Len(log) = 1

\* a step without a configured position floated when the tour started; its
\* element appeared and the call bound it, with position 'auto'
C13_Witness ==
    /\ log # << >> /\ log[1].k = "updateStepElement" /\ log[1].n = 1
    /\ Len(log) = 1
    /\ Len(log[1].was.introItems) = 2
    /\ log[1].was.introItems[2].element = "floating"
    /\ introJs.introItems[2] = [element |-> "#a1", position |-> "auto"]
    /\ introJs.introItems[1] = log[1].was.introItems[1]

---------------------------------------------------------------------------
(* C14 *)

\* C14: an update pass in which the steps or options reference changed
\* while `enabled` kept its value and `steps` stayed empty or stayed
\* non-empty issues neither start() nor exit() and leaves isVisible as it
\* was.
C14_NoTransitionOnRefChange ==
    ( /\ log # << >> /\ log[1].k = "componentDidUpdate"
      /\ ~pre.sameRefs
      /\ pre.enabled = props.enabled
      /\ pre.noSteps = NoSteps(props) )
       => /\ Count(log, "introJs.start") = 0
          /\ Count(log, "introJs.exit") = 0
          /\ isVisible = log[1].v

---------------------------------------------------------------------------
(* C15 *)

EngineCallKinds ==
    {"introJs.setOptions", "introJs.start", "introJs.goToStepNumber", "introJs.exit"}

\* C15: once the component is configured, an update pass that hands over
\* the same `enabled`, the same steps reference and the same options
\* reference (only initialStep or callbacks may differ) calls nothing on
\* the engine, calls no consumer callback, schedules nothing and leaves
\* isVisible, isConfigured and the engine as they were.
C15_UnrelatedUpdateIsInert ==
    ( /\ log # << >> /\ log[1].k = "componentDidUpdate"
      /\ pre.isConfigured
      /\ pre.sameRefs
      /\ pre.enabled = props.enabled )
       => /\ \A i \in DOMAIN log :
                log[i].k \notin EngineCallKinds \cup ConsumerKinds \cup RelayKinds \cup {"setTimeout"}
          /\ isVisible = log[1].v
          /\ isConfigured
          /\ introJs.showing = pre.showing
          /\ introJs.currentStep = pre.currentStep
          /\ timers = pre.timers

\* such a pass on a tour the user had closed, with `enabled` still true and
\* steps to show: a visibility check would have started it again
C15_Witness ==
    /\ log # << >> /\ log[1].k = "componentDidUpdate"
    /\ pre.isConfigured /\ pre.sameRefs /\ pre.enabled
    /\ props.enabled /\ ~NoSteps(props)
    /\ props.cbs = OptionalCallbacks
    /\ ~isVisible /\ ~introJs.showing

---------------------------------------------------------------------------
(* C16 *)

\* C16: an update pass that begins Hidden with an empty `steps` and hands
\* over a non-empty one with `enabled` true configures the engine and then
\* starts the tour in that same pass: setOptions once, then start() once,
\* no exit(), isVisible true at the end.  If `enabled` was true before, the
\* visibility check runs once; if `enabled` became true in this pass too,
\* it runs twice and the second run does nothing.
C16_StartsWhenStepsArrive ==
    ( /\ log # << >> /\ log[1].k = "componentDidUpdate"
      /\ ~log[1].v
      /\ pre.noSteps /\ ~NoSteps(props)
      /\ props.enabled )
       => /\ Count(log, "introJs.setOptions") = 1
          /\ Count(log, "introJs.start") = 1
          /\ Count(log, "introJs.exit") = 0
          /\ FirstAfter(log, 0, "introJs.setOptions") < FirstAfter(log, 0, "introJs.start")
          /\ Count(log, "renderSteps") = IF pre.enabled THEN 1 ELSE 2
          /\ log[Len(log)].k = IF pre.enabled
                               THEN (IF "onStart" \in props.cbs
                                     THEN "props.onStart"
                                     ELSE "introJs.goToStepNumber.return")
                               ELSE "renderSteps"
          /\ isVisible

\* enabled all along and configured with no steps, the component was
\* handed steps and started the tour
C16_Witness ==
    /\ log # << >> /\ log[1].k = "componentDidUpdate"
    /\ pre.enabled /\ pre.isConfigured /\ pre.noSteps /\ ~pre.showing
    /\ props.enabled /\ ~NoSteps(props)
    /\ Count(log, "introJs.start") = 1
    /\ isVisible /\ introJs.showing

---------------------------------------------------------------------------
(* C17 *)

\* entry j of log l was made while the exit handler was running
InsideExitRelay(l, j) ==
    /\ \E i \in DOMAIN l : i < j /\ l[i].k = "relay.onExit"
    /\ \E r \in DOMAIN l : r > j /\ l[r].k = "relay.onExit.return"

\* C17: setOptions is never called while a relay handler is running, also
\* when the consumer's callback changes the props synchronously and so
\* causes an update pass.
C17_ConfigureOffRelayStack ==
    \A j \in DOMAIN log :
       log[j].k = "introJs.setOptions" => ~InsideExitRelay(log, j)

---------------------------------------------------------------------------
(* C18 *)

\* C18: between actions isVisible is true exactly when the engine's tour
\* is showing; so start() is never issued on a showing tour and no change
\* event of a showing tour is absorbed by the isVisible gate outside a
\* start().
C18_VisibleIffShowing ==
    /\ isVisible <=> introJs.showing
    /\ Count(log, "introJs.start") > 0 => ~pre.showing
    /\ (log # << >> /\ log[1].k = "user.changeStep")
          => \A i \in DOMAIN log : log[i].k \in RelayKinds => log[i].v

---------------------------------------------------------------------------
(* C19 *)

\* C19: a mount or update pass that ends with `enabled` false ends with
\* isVisible false; isVisible is true only while `enabled` is true, and a
\* start() is issued only with `enabled` true and a non-empty `steps`.
C19_DisabledMeansHidden ==
    /\ (IsPass(log) /\ ~props.enabled) => ~isVisible
    /\ isVisible => props.enabled
    /\ Count(log, "introJs.start") > 0 => (props.enabled /\ ~NoSteps(props))

\* an update pass took `enabled` away from a Visible tour; the consumer
\* refused the exit, the tour is still showing, and isVisible is false
C19_Witness ==
    /\ log # << >> /\ log[1].k = "componentDidUpdate"
    /\ log[1].v /\ pre.enabled
    /\ ~props.enabled
    /\ introJs.showing
    /\ ~isVisible

---------------------------------------------------------------------------
(* C20 *)

\* C20: teardown issues the engine's exit() exactly once, and once it has
\* completed no consumer callback is called any more; a prevent-change
\* callback scheduled before teardown does not run after it.
C20_SilentAfterTeardown ==
    /\ IsTeardown(log) => Count(log, "introJs.exit") = 1
    /\ (phase = "unmounted" /\ ~IsTeardown(log))
          => \A i \in DOMAIN log : log[i].k \notin ConsumerKinds

====
